---- MODULE Spec2Model ----
(***************************************************************************)
(* Verification model of four parts of the repository:                     *)
(*   - AfterRenderImpl / AfterRenderSequence (after_render/manager.ts)     *)
(*     with registerAfterRendersInView;                                    *)
(*   - the debug signal-graph walk (render3/util/signal_debug.ts);         *)
(*   - signalMetadataTransform (the debugName TypeScript transform);       *)
(*   - the http-xhr-backend migration (migrateFile);                       *)
(*   - the self-closing-tag migration (migrate, selfClosingTagMigration);  *)
(*   - parseAndValidateInputAndOutputOptions.                              *)
(* Each part has its own specification; the variables of the other parts   *)
(* stay at their initial values.                                           *)
(***************************************************************************)
EXTENDS Integers, Sequences, FiniteSets, TLC

(***************************************************************************)
(* Bounds                                                                  *)
(***************************************************************************)
\* number of AfterRenderSequence objects ever created
NumSeq == 2
\* depth of execute() calls nested through hooks
MaxDepth == 2
\* hooks return a value in 1..MaxValue (0 stands for undefined)
MaxValue == 1

(***************************************************************************)
(* after_render/manager.ts                                                 *)
(***************************************************************************)
\* indices of EarlyRead, Write, MixedReadWrite, Read in AFTER_RENDER_PHASES
AFTER_RENDER_PHASES == <<1, 2, 3, 4>>

NumPhases == Len(AFTER_RENDER_PHASES)

SeqIds == 1..NumSeq

\* the hook tuple (AfterRenderHooks) the n-th created sequence is constructed
\* with: the set of phases for which hooks[phase] is defined
HooksOfCreated == <<{1, 3}, {2, 4}, {2}, {1, 4}, {3}>>

undefined == 0

VARIABLES
    created,                \* number of sequences constructed so far
    hooks,                  \* AfterRenderSequence.hooks (phases with a hook)
    once,                   \* AfterRenderSequence.once
    erroredOrDestroyed,     \* AfterRenderSequence.erroredOrDestroyed
    pipelinedValue,         \* AfterRenderSequence.pipelinedValue
    destroyed,              \* destroy() has been called on the sequence
    sequences,              \* AfterRenderImpl.sequences (Set, insertion order)
    deferredRegistrations,  \* AfterRenderImpl.deferredRegistrations
    viewQueue,              \* lView[AFTER_RENDER_SEQUENCES_TO_REGISTER]
    executing,              \* AfterRenderImpl.executing
    stack,                  \* active execute() calls, innermost last
    lastRet,                \* history: what the execute() call that has just
                            \* returned saw registered / unregistered
    notified,               \* ChangeDetectionScheduler.notify was called and
                            \* no execute() has answered it yet
    ran,                    \* history: the phases whose hook has been
                            \* started, for every sequence
    recording               \* whether notified and the histories oneShots,
                            \* last and ran are kept in this behaviour

arVars == <<created, hooks, once, erroredOrDestroyed, pipelinedValue,
            destroyed, sequences, deferredRegistrations, viewQueue, executing,
            stack, lastRet, notified, ran, recording>>

Range(s) == {s[i] : i \in 1..Len(s)}

IndexOf(s, x) == IF x \in Range(s)
                 THEN CHOOSE i \in 1..Len(s) : s[i] = x /\ \A j \in 1..(i-1) : s[j] # x
                 ELSE 0

\* Set.prototype.add on an insertion-ordered set
SetAdd(s, x) == IF x \in Range(s) THEN s ELSE Append(s, x)

\* Set.prototype.delete / Array.prototype.filter(e => e !== x)
SetDelete(s, x) == SelectSeq(s, LAMBDA e : e # x)

\* The record of everything a manager method can change.
Cur == [sequences |-> sequences, deferredRegistrations |-> deferredRegistrations,
        viewQueue |-> viewQueue, once |-> once,
        erroredOrDestroyed |-> erroredOrDestroyed,
        pipelinedValue |-> pipelinedValue, destroyed |-> destroyed,
        executing |-> executing, stack |-> stack, notified |-> notified]

\* A live Set iterator that has consumed idx entries: deleting an entry it has
\* already passed moves it back by one, so that it neither skips nor repeats.
MapFrames(frames, F(_)) ==
    IF Len(frames) = 0 THEN <<>> ELSE [k \in 1..Len(frames) |-> F(frames[k])]

IterAfterDelete(frames, pos) ==
    MapFrames(frames, LAMBDA f :
        IF pos # 0 /\ pos <= f.idx THEN [f EXCEPT !.idx = @ - 1] ELSE f)

\* History only: remember in every running execute() that s was registered /
\* unregistered while it was running hooks.
NoteRegistered(frames, s) ==
    MapFrames(frames, LAMBDA f : [f EXCEPT !.reg = @ \cup {s}])

NoteUnregistered(frames, s) ==
    MapFrames(frames, LAMBDA f :
        [f EXCEPT !.unreg = @ \cup {s}])

\* AfterRenderImpl.register
register(m, s) ==
    IF ~m.executing
    THEN [m EXCEPT !.sequences = SetAdd(@, s),
                   !.notified = recording,
                   !.stack = NoteRegistered(@, s)]
    ELSE [m EXCEPT !.deferredRegistrations = SetAdd(@, s),
                   !.stack = NoteRegistered(@, s)]

\* AfterRenderImpl.queueRegistration
queueRegistration(m, s, hasView) ==
    IF hasView /\ ~m.executing
    THEN [m EXCEPT !.viewQueue = Append(@, s)]
    ELSE register(m, s)

\* AfterRenderImpl.unregister
unregisterKeepsRepeating(m, s) ==
    IF m.executing /\ s \in Range(m.sequences)
    THEN [m EXCEPT !.erroredOrDestroyed[s] = TRUE,
                   !.pipelinedValue[s] = undefined]
    ELSE [m EXCEPT !.sequences = SetDelete(@, s),
                   !.deferredRegistrations = SetDelete(@, s),
                   !.stack = IterAfterDelete(@, IndexOf(m.sequences, s))]

unregister(m, s) ==
    IF m.executing /\ s \in Range(m.sequences)
    THEN [m EXCEPT !.erroredOrDestroyed[s] = TRUE,
                   !.pipelinedValue[s] = undefined,
                   !.once[s] = TRUE]
    ELSE [m EXCEPT !.sequences = SetDelete(@, s),
                   !.deferredRegistrations = SetDelete(@, s),
                   !.stack = IterAfterDelete(@, IndexOf(m.sequences, s))]

\* AfterRenderSequence.destroy
destroy(m, s) ==
    LET u == unregister(m, s)
    IN  [u EXCEPT !.viewQueue = SetDelete(@, s), !.destroyed[s] = TRUE]

\* AfterRenderSequence.afterRun
afterRun(m, s) ==
    [m EXCEPT !.erroredOrDestroyed[s] = FALSE, !.pipelinedValue[s] = undefined]

\* execute(), lines 84-92: the cleanup loop over the live Set; i entries have
\* been consumed.
RECURSIVE Cleanup(_, _)
Cleanup(m, i) ==
    IF i >= Len(m.sequences) THEN m
    ELSE LET s == m.sequences[i + 1]
             a == afterRun(m, s)
         IN  IF a.once[s]
             THEN Cleanup(destroy(a, s), i)
             ELSE Cleanup(a, i + 1)

\* execute(), lines 94-100: deferred registrations become active
RECURSIVE AddAll(_, _)
AddAll(seqs, d) ==
    IF d = <<>> THEN seqs ELSE AddAll(SetAdd(seqs, Head(d)), Tail(d))

FlushDeferred(m) ==
    [m EXCEPT !.sequences = AddAll(@, m.deferredRegistrations),
              !.notified = IF Len(m.deferredRegistrations) > 0 THEN recording ELSE @,
              !.deferredRegistrations = <<>>]

\* The nesting of the two loops of execute(), lines 65-66: position (p, i) is
\* phase p, i-th entry of the sequences Set; smaller keys are visited first.
LoopKeySequenceMajor(p, i) == (i - 1) * NumPhases + p

LoopKey(p, i) == (p - 1) * (NumSeq + 2) + i

\* line 67: the hook at position (p, i) is run
Runnable(m, p, i) ==
    /\ i <= Len(m.sequences)
    /\ ~m.erroredOrDestroyed[m.sequences[i]]
    /\ p \in hooks[m.sequences[i]]

\* the positions the loops have still to visit after (p, i)
Ahead(m, p, i) ==
    {q \in (1..NumPhases) \X (1..Len(m.sequences)) :
        /\ LoopKey(q[1], q[2]) > LoopKey(p, i)
        /\ Runnable(m, q[1], q[2])}

NextPos(m, p, i) ==
    CHOOSE q \in Ahead(m, p, i) :
        \A r \in Ahead(m, p, i) : LoopKey(q[1], q[2]) <= LoopKey(r[1], r[2])

Top == stack[Len(stack)]

\* code running outside execute(), or inside a hook that execute() is running
UserCodeRuns == IF Len(stack) = 0 THEN TRUE ELSE Top.cur # 0

Apply(m) ==
    /\ sequences' = m.sequences
    /\ deferredRegistrations' = m.deferredRegistrations
    /\ viewQueue' = m.viewQueue
    /\ once' = m.once
    /\ erroredOrDestroyed' = m.erroredOrDestroyed
    /\ pipelinedValue' = m.pipelinedValue
    /\ destroyed' = m.destroyed
    /\ executing' = m.executing
    /\ stack' = m.stack
    /\ notified' = m.notified


\* phase, idx: the position of the two loops; cur: the sequence whose hook is
\* running (0: none).  History: maxRan is the latest phase of a hook this
\* call has run, reg / unreg the sequences registered / unregistered since
\* this call started, oneShots the one-shot sequences that were active when
\* this call started, last the value the latest hook of each sequence
\* returned to this call (-1: this call has had no value from the sequence).
NoRet == [reg |-> {}, unreg |-> {}]

NewFrame == [phase |-> 1, idx |-> 0, cur |-> 0, maxRan |-> 0,
             reg |-> {}, unreg |-> {},
             oneShots |-> {s \in Range(sequences) : recording /\ once[s]},
             last |-> [s \in SeqIds |-> -1]]

ReplaceTop(frames, f) == [frames EXCEPT ![Len(frames)] = f]

Pop(frames) == SubSeq(frames, 1, Len(frames) - 1)

AfterRenderStart ==
    /\ created = 0
    /\ hooks = [s \in SeqIds |-> {}]
    /\ once = [s \in SeqIds |-> FALSE]
    /\ erroredOrDestroyed = [s \in SeqIds |-> FALSE]
    /\ pipelinedValue = [s \in SeqIds |-> undefined]
    /\ destroyed = [s \in SeqIds |-> FALSE]
    /\ sequences = <<>>
    /\ deferredRegistrations = <<>>
    /\ viewQueue = <<>>
    /\ executing = FALSE
    /\ stack = <<>>
    /\ lastRet = NoRet
    /\ notified = FALSE
    /\ ran = [s \in SeqIds |-> {}]

InitAfterRender == AfterRenderStart /\ recording = FALSE

\* afterRender() / afterNextRender(): construct a sequence and hand it to
\* queueRegistration; from outside execute() or from inside a hook
Create ==
    /\ UserCodeRuns
    /\ created < NumSeq
    /\ \E o \in BOOLEAN, v \in BOOLEAN :
        LET s == created + 1
        IN  /\ created' = s
            /\ hooks' = [hooks EXCEPT ![s] = HooksOfCreated[s]]
            /\ Apply(queueRegistration([Cur EXCEPT !.once[s] = o], s, v))
    /\ lastRet' = NoRet
    /\ UNCHANGED recording
    /\ UNCHANGED ran

\* AfterRenderRef.destroy() called by user code or by a DestroyRef
Destroy ==
    /\ UserCodeRuns
    /\ \E s \in 1..created :
        /\ ~destroyed[s]
        /\ LET m == IF s \in Range(sequences)
                    THEN [Cur EXCEPT !.stack = NoteUnregistered(@, s)]
                    ELSE Cur
           IN  Apply(destroy(m, s))
    /\ UNCHANGED <<created, hooks, ran>>
    /\ lastRet' = NoRet
    /\ UNCHANGED recording

\* registerAfterRendersInView (part_003): the view is traversed
RECURSIVE RegisterAll(_, _)
RegisterAll(m, q) ==
    IF q = <<>> THEN m ELSE RegisterAll(register(m, Head(q)), Tail(q))

registerAfterRendersInView ==
    /\ UserCodeRuns
    /\ viewQueue # <<>>
    /\ Apply(RegisterAll([Cur EXCEPT !.viewQueue = <<>>], viewQueue))
    /\ UNCHANGED <<created, hooks, ran>>
    /\ lastRet' = NoRet
    /\ UNCHANGED recording

\* execute() is entered, called by user code (ApplicationRef.tick() from
\* outside or from a hook): line 64
ExecuteStart ==
    /\ UserCodeRuns
    /\ Len(stack) < MaxDepth
    /\ executing' = TRUE
    /\ stack' = Append(stack, NewFrame)
    /\ UNCHANGED <<created, hooks, once, erroredOrDestroyed,
                   pipelinedValue, destroyed, sequences,
                   deferredRegistrations, viewQueue, notified, ran>>
    /\ lastRet' = NoRet
    /\ UNCHANGED recording

\* execute() is entered, called by the tick the scheduler runs in answer to
\* notify(): line 64
ScheduledExecute ==
    /\ notified
    /\ Len(stack) = 0
    /\ notified' = FALSE
    /\ executing' = TRUE
    /\ stack' = Append(stack, NewFrame)
    /\ UNCHANGED <<created, hooks, once, erroredOrDestroyed,
                   pipelinedValue, destroyed, sequences,
                   deferredRegistrations, viewQueue, ran>>
    /\ lastRet' = NoRet
    /\ UNCHANGED recording

\* lines 65-74: the loops advance to the next hook to run and call it
RunNextHook ==
    /\ Len(stack) > 0
    /\ Top.cur = 0
    /\ Ahead(Cur, Top.phase, Top.idx) # {}
    /\ LET q == NextPos(Cur, Top.phase, Top.idx)
           s == sequences[q[2]]
       IN  stack' = ReplaceTop(stack,
               [Top EXCEPT !.phase = q[1], !.idx = q[2], !.cur = s,
                           !.maxRan = IF q[1] > @ THEN q[1] ELSE @])
    /\ ran' = IF recording
              THEN [ran EXCEPT ![sequences[NextPos(Cur, Top.phase, Top.idx)[2]]] =
                       @ \cup {NextPos(Cur, Top.phase, Top.idx)[1]}]
              ELSE ran
    /\ UNCHANGED <<created, hooks, once, erroredOrDestroyed,
                   pipelinedValue, destroyed, sequences,
                   deferredRegistrations, viewQueue, executing, notified>>
    /\ lastRet' = NoRet
    /\ UNCHANGED recording

\* line 72: the hook returns a value
HookReturn ==
    /\ Len(stack) > 0
    /\ Top.cur # 0
    /\ \E v \in 0..MaxValue :
        pipelinedValue' = [pipelinedValue EXCEPT ![Top.cur] = v]
    /\ stack' = ReplaceTop(stack,
                    [Top EXCEPT !.cur = 0,
                                !.last[Top.cur] = IF recording
                                                  THEN pipelinedValue'[Top.cur]
                                                  ELSE @])
    /\ UNCHANGED <<created, hooks, once, erroredOrDestroyed,
                   destroyed, sequences, deferredRegistrations, viewQueue,
                   executing, notified, ran>>
    /\ lastRet' = NoRet
    /\ UNCHANGED recording

\* lines 75-78: the hook throws and handleError returns (or there is no
\* ErrorHandler)
HookThrow ==
    /\ Len(stack) > 0
    /\ Top.cur # 0
    /\ erroredOrDestroyed' = [erroredOrDestroyed EXCEPT ![Top.cur] = TRUE]
    /\ stack' = ReplaceTop(stack, [Top EXCEPT !.cur = 0])
    /\ UNCHANGED <<created, hooks, once, pipelinedValue, destroyed,
                   sequences, deferredRegistrations, viewQueue, executing,
                   notified, ran>>
    /\ lastRet' = NoRet
    /\ UNCHANGED recording

\* lines 75-78: the hook throws and handleError throws: execute() is left by
\* the exception, which reaches the caller (the enclosing hook, if any)
HandleErrorThrows ==
    /\ Len(stack) > 0
    /\ Top.cur # 0
    /\ erroredOrDestroyed' = [erroredOrDestroyed EXCEPT ![Top.cur] = TRUE]
    /\ stack' = Pop(stack)
    /\ UNCHANGED <<created, hooks, once, pipelinedValue, destroyed,
                   sequences, deferredRegistrations, viewQueue, executing,
                   notified, ran>>
    /\ lastRet' = NoRet
    /\ UNCHANGED recording

\* lines 81-100: the loops are over; cleanup, deferred registrations, return
ExecuteFinish ==
    /\ Len(stack) > 0
    /\ Top.cur = 0
    /\ Ahead(Cur, Top.phase, Top.idx) = {}
    /\ LET m1 == [Cur EXCEPT !.executing = FALSE, !.stack = Pop(@)]
           m3 == FlushDeferred(Cleanup(m1, 0))
       IN  Apply(m3)
    /\ lastRet' = [reg |-> Top.reg, unreg |-> Top.unreg]
    /\ UNCHANGED recording
    /\ UNCHANGED <<created, hooks, ran>>

NextAfterRender ==
    \/ Create
    \/ Destroy
    \/ registerAfterRendersInView
    \/ ExecuteStart
    \/ RunNextHook
    \/ HookReturn
    \/ HookThrow
    \/ HandleErrorThrows
    \/ ExecuteFinish

(***************************************************************************)
(* render3/util/signal_debug.ts                                            *)
(***************************************************************************)
\* number of reactive nodes of the graph
NumNodes == 4
\* longest producerNode array
MaxProducers == 2

Nodes == 1..NumNodes

\* what isTemplateNode / isEffectNode / isSignalNode / isComputedNode tell of
\* the node: one template consumer, one effect, computed nodes and (fifth) a
\* plain signal
KindOf(n) ==
    IF n = 1 THEN "template"
    ELSE IF n = 2 THEN "effect"
    ELSE IF n = 5 THEN "signal"
    ELSE "computed"

\* the nodes that can be read, and so appear in a producerNode array
ProducerNodes == {n \in Nodes : KindOf(n) \in {"signal", "computed"}}

\* the sequences in ascending order of the subsets of S with at most k members
RECURSIVE SortedSeq(_)
SortedSeq(S) ==
    IF S = {} THEN <<>>
    ELSE LET x == CHOOSE y \in S : \A z \in S : y <= z
         IN  <<x>> \o SortedSeq(S \ {x})

ProducerLists(n) ==
    IF KindOf(n) = "signal" THEN {<<>>}
    ELSE {SortedSeq(S) : S \in {T \in SUBSET ProducerNodes : Cardinality(T) <= MaxProducers}}

VARIABLES
    producerNode,           \* ReactiveNode.producerNode of every node
    nodeValue,              \* SignalNode.value / ComputedNode.value
    signalNodes,            \* the roots getSignalGraph starts from
    signalDependenciesMap,  \* the keys of the Map, in insertion order; the
                            \* value of key n is the array producerNode[n]
    walk,                   \* the calls of extractSignalNodesAndEdgesFromRoots:
                            \* the node whose producers are walked (0: the
                            \* roots) and how many entries have been taken
    expanded,               \* history: how often a node was expanded
    gPc,                    \* "idle", "walk", "build", "returned", "threw"
    graph,                  \* the DebugSignalGraph returned
    before                  \* history: the reactive graph when the call began

gVars == <<producerNode, nodeValue, signalNodes, signalDependenciesMap, walk,
           expanded, gPc, graph, before>>

NoGraph == [nodes |-> <<>>, edges |-> <<>>]

GraphIdle ==
    /\ signalDependenciesMap = <<>>
    /\ walk = <<>>
    /\ expanded = [n \in Nodes |-> 0]
    /\ gPc = "idle"
    /\ graph = NoGraph
    /\ before = <<>>

InitGraph ==
    /\ producerNode \in [Nodes -> UNION {ProducerLists(n) : n \in Nodes}]
    /\ \A n \in Nodes : producerNode[n] \in ProducerLists(n)
    /\ nodeValue = [n \in Nodes |-> IF KindOf(n) \in {"signal", "computed"} THEN 10 * n ELSE 0]
    /\ signalNodes \in {<<1, 2>>, <<2>>}
    /\ GraphIdle

\* the array a call of extractSignalNodesAndEdgesFromRoots iterates over
WalkedList(f) == IF f.of = 0 THEN signalNodes ELSE producerNode[f.of]

WalkTop == walk[Len(walk)]

\* line 170: signalDependenciesMap.has(node)
HasNever(node) == FALSE

Has(node) == node \in Range(signalDependenciesMap)

\* no call nests deeper than one level per node, plus the call on the roots
MaxWalkDepth == NumNodes + 1

\* getSignalGraph, lines 183-188 and the assertions of getTemplateConsumer:
\* the call throws for an R3Injector, for anything that is not a NodeInjector
\* and for a NodeInjector without a valid TNode / LView
GetSignalGraphThrows ==
    /\ gPc = "idle"
    /\ gPc' = "threw"
    /\ before' = <<producerNode, nodeValue>>
    /\ UNCHANGED <<producerNode, nodeValue, signalNodes, signalDependenciesMap,
                   walk, expanded, graph>>

\* getSignalGraph, lines 190-196: the roots are collected and the walk begins
GetSignalGraphWalks ==
    /\ gPc = "idle"
    /\ gPc' = "walk"
    /\ before' = <<producerNode, nodeValue>>
    /\ walk' = <<[of |-> 0, i |-> 0]>>
    /\ UNCHANGED <<producerNode, nodeValue, signalNodes, signalDependenciesMap,
                   expanded, graph>>

\* lines 169-172: the next node of the array is in the map already
WalkSkip ==
    /\ gPc = "walk"
    /\ WalkTop.i < Len(WalkedList(WalkTop))
    /\ Has(WalkedList(WalkTop)[WalkTop.i + 1])
    /\ walk' = [walk EXCEPT ![Len(walk)].i = @ + 1]
    /\ UNCHANGED <<producerNode, nodeValue, signalNodes, signalDependenciesMap,
                   expanded, gPc, graph, before>>

\* lines 174-176: the next node is entered into the map and its producers
\* are walked by a recursive call
WalkExpandConsuming ==
    /\ gPc = "walk"
    /\ WalkTop.i < Len(WalkedList(WalkTop))
    /\ LET node == WalkedList(WalkTop)[WalkTop.i + 1]
       IN  /\ ~Has(node)
           /\ expanded[node] < 2
           /\ Len(walk) < MaxWalkDepth
           /\ signalDependenciesMap' = Append(signalDependenciesMap, node)
           /\ expanded' = [expanded EXCEPT ![node] = @ + 1]
           /\ walk' = Append(walk, [of |-> node, i |-> 0])
           /\ producerNode' = IF WalkTop.of = 0 THEN producerNode
                              ELSE [producerNode EXCEPT ![WalkTop.of] = Tail(@)]
    /\ UNCHANGED <<nodeValue, signalNodes, gPc, graph, before>>

WalkExpand ==
    /\ gPc = "walk"
    /\ WalkTop.i < Len(WalkedList(WalkTop))
    /\ LET node == WalkedList(WalkTop)[WalkTop.i + 1]
       IN  /\ ~Has(node)
           /\ expanded[node] < 2
           /\ Len(walk) < MaxWalkDepth
           /\ signalDependenciesMap' = Append(signalDependenciesMap, node)
           /\ expanded' = [expanded EXCEPT ![node] = @ + 1]
           /\ walk' = Append([walk EXCEPT ![Len(walk)].i = @ + 1],
                             [of |-> node, i |-> 0])
    /\ UNCHANGED <<producerNode, nodeValue, signalNodes, gPc, graph, before>>

\* line 179: the array is exhausted and the call returns
WalkReturn ==
    /\ gPc = "walk"
    /\ WalkTop.i >= Len(WalkedList(WalkTop))
    /\ walk' = SubSeq(walk, 1, Len(walk) - 1)
    /\ gPc' = IF Len(walk) = 1 THEN "build" ELSE "walk"
    /\ UNCHANGED <<producerNode, nodeValue, signalNodes, signalDependenciesMap,
                   expanded, graph, before>>

\* getNodesAndEdgesFromSignalMap, lines 100-135
DebugNode(n) ==
    IF KindOf(n) \in {"computed", "signal"}
    THEN [kind |-> KindOf(n), label |-> n, value |-> nodeValue[n]]
    ELSE [kind |-> KindOf(n), label |-> n, value |-> 0]

\* lines 139-144: the edges of the consumers keys[c..], by 0-based indices
RECURSIVE EdgesFrom(_, _)
EdgesFrom(keys, c) ==
    IF c > Len(keys) THEN <<>>
    ELSE [j \in 1..Len(producerNode[keys[c]]) |->
             [consumer |-> c - 1,
              producer |-> IndexOf(keys, producerNode[keys[c]][j]) - 1]]
         \o EdgesFrom(keys, c + 1)

getNodesAndEdgesFromSignalMap(keys) ==
    [nodes |-> [k \in 1..Len(keys) |-> DebugNode(keys[k])],
     edges |-> EdgesFrom(keys, 1)]

\* getSignalGraph, line 197
BuildGraph ==
    /\ gPc = "build"
    /\ graph' = getNodesAndEdgesFromSignalMap(signalDependenciesMap)
    /\ gPc' = "returned"
    /\ UNCHANGED <<producerNode, nodeValue, signalNodes, signalDependenciesMap,
                   walk, expanded, before>>

NextGraph ==
    \/ GetSignalGraphThrows
    \/ GetSignalGraphWalks
    \/ WalkSkip
    \/ WalkExpand
    \/ WalkReturn
    \/ BuildGraph

(***************************************************************************)
(* signalMetadataTransform (src/unnamed/part_001)                          *)
(***************************************************************************)
\* longest argument list of a call in the input
MaxArgs == 2

\* isSignalFunction, lines 258-274
isSignalFunction(text) ==
    text \in {"signal", "computed", "input", "model", "viewChild",
              "viewChildren", "contentChild", "contentChildren", "effect"}

\* expressions: a literal or arrow function, an identifier, a call, an object
\* literal with its properties, and the spread of a conditional on ngDevMode
\* that the transform creates
Expr(kind, props, whenTrue, whenFalse) ==
    [kind |-> kind, props |-> props, whenTrue |-> whenTrue, whenFalse |-> whenFalse]

Literal == Expr("literal", <<>>, <<>>, <<>>)

Identifier == Expr("identifier", <<>>, <<>>, <<>>)

CallExpression == Expr("call", <<>>, <<>>, <<>>)

ObjectLiteral(props) == Expr("object", props, <<>>, <<>>)

SpreadOfNgDevMode(whenTrue, whenFalse) == Expr("spread", <<>>, whenTrue, whenFalse)

\* a property of an object literal: a PropertyAssignment (name: value) or a
\* shorthand property (name)
Property(name, assign, value) == [name |-> name, assign |-> assign, value |-> value]

ConfigLiterals ==
    {ObjectLiteral(ps) : ps \in {
        <<>>,
        <<Property("equal", TRUE, "orig")>>,
        <<Property("alias", TRUE, "orig")>>,
        <<Property("equal", TRUE, "orig"), Property("alias", TRUE, "orig")>>,
        <<Property("debugName", TRUE, "orig")>>,
        <<Property("debugName", FALSE, "orig")>>}}

ArgExprs == {Literal, Identifier, CallExpression} \cup ConfigLiterals

ArgLists == UNION {[1..n -> ArgExprs] : n \in 0..MaxArgs}

\* what the type checker knows of the called identifier: whether it has a
\* symbol, how many declarations, the kind of the first declaration and, for
\* an import, the module specifier
Resolutions ==
    {[hasSymbol |-> FALSE, declarations |-> 0, kind |-> "none", module |-> "none"],
     [hasSymbol |-> TRUE, declarations |-> 0, kind |-> "none", module |-> "none"],
     [hasSymbol |-> TRUE, declarations |-> 1, kind |-> "FunctionDeclaration", module |-> "none"],
     [hasSymbol |-> TRUE, declarations |-> 1, kind |-> "ImportClause", module |-> "@angular/core"],
     [hasSymbol |-> TRUE, declarations |-> 1, kind |-> "ImportSpecifier", module |-> "other"],
     [hasSymbol |-> TRUE, declarations |-> 1, kind |-> "ImportSpecifier", module |-> "@angular/core"]}

\* the visited nodes: a declaration or assignment whose initializer is a call
\* of base(...) or base.access(...)
TNodes ==
    [shape : {"VariableDeclaration", "PropertyDeclaration", "PropertyAssignment"},
     name : {"mySignal"},
     base : {"signal", "computed", "input", "model", "viewChild", "viewChildren",
             "contentChild", "contentChildren", "effect", "foo"},
     access : {"", "required", "set"},
     resolution : Resolutions,
     args : ArgLists]

VARIABLES
    tIn,     \* the node handed to the visitor
    tOut,    \* the node the visitor returned
    tPc      \* "in": not visited yet, "out": visited

tVars == <<tIn, tOut, tPc>>

\* expressionIsUsingAngularImportedSymbol, lines 217-256
AnyImportSpecifier(res) ==
    /\ res.hasSymbol
    /\ res.declarations > 0
    /\ res.kind = "ImportSpecifier"

expressionIsUsingAngularImportedSymbol(res) ==
    /\ res.hasSymbol
    /\ res.declarations > 0
    /\ res.kind = "ImportSpecifier"
    /\ res.module = "@angular/core"

\* getConfigArgPosition, lines 276-293 (0-based)
getConfigArgPosition(node) ==
    IF node.access = "required" /\ node.base \in {"input", "model"} THEN 0 ELSE 1

\* insertDebugNameIntoExistingConfigObject, lines 3-47
insertDebugNameIntoExistingConfigObject(args, debugName, configPosition) ==
    LET existingArgument == args[configPosition + 1]
        debugNameExists ==
            \E k \in 1..Len(existingArgument.props) :
                /\ existingArgument.props[k].assign
                /\ existingArgument.props[k].name = "debugName"
        properties ==
            <<Property("debugName", TRUE, debugName)>> \o existingArgument.props
    IN  IF debugNameExists THEN args
        ELSE [args EXCEPT ![configPosition + 1] =
                 SpreadOfNgDevMode(<<ObjectLiteral(properties)>>,
                                   <<ObjectLiteral(existingArgument.props)>>)]

\* insertDebugNameIntoCallExpression, lines 49-100
insertDebugNameIntoCallExpression(node, debugName) ==
    LET configPosition == getConfigArgPosition(node)
        args == node.args
        present == Len(args) > configPosition
        spreadElement ==
            SpreadOfNgDevMode(
                <<ObjectLiteral(<<Property("debugName", TRUE, debugName)>>)>>, <<>>)
    IN  IF present /\ args[configPosition + 1].kind = "identifier" THEN args
        ELSE IF present /\ args[configPosition + 1].kind = "object"
        THEN insertDebugNameIntoExistingConfigObject(args, debugName, configPosition)
        ELSE IF Len(args) > configPosition
        THEN [args EXCEPT ![configPosition + 1] = spreadElement]
        ELSE Append(args, spreadElement)

\* isVariableDeclarationCase / isPropertyAssignmentCase /
\* isPropertyDeclarationCase, lines 110-206
isVariableDeclarationCase(node) ==
    node.shape = "VariableDeclaration" /\ isSignalFunction(node.base)

isPropertyAssignmentCase(node) ==
    node.shape = "PropertyAssignment" /\ isSignalFunction(node.base)

isPropertyDeclarationCase(node) ==
    node.shape = "PropertyDeclaration" /\ isSignalFunction(node.base)

\* transformVariableDeclaration, lines 295-317
transformVariableDeclaration(node) ==
    IF ~expressionIsUsingAngularImportedSymbol(node.resolution) THEN node
    ELSE [node EXCEPT !.args = insertDebugNameIntoCallExpression(node, node.name)]

\* transformPropertyAssignment, lines 319-342
transformPropertyAssignment(node) ==
    IF ~expressionIsUsingAngularImportedSymbol(node.resolution) THEN node
    ELSE [node EXCEPT !.args = insertDebugNameIntoCallExpression(node, node.name)]

\* transformPropertyDeclaration, lines 344-367
transformPropertyDeclaration(node) ==
    IF ~expressionIsUsingAngularImportedSymbol(node.resolution) THEN node
    ELSE [node EXCEPT !.args = insertDebugNameIntoCallExpression(node, node.name)]

InitTransform ==
    /\ tIn \in TNodes
    /\ tOut = tIn
    /\ tPc = "in"

\* the visitor of signalMetadataTransform, lines 434-448, one action per branch
VisitVariableDeclaration ==
    /\ tPc = "in"
    /\ isVariableDeclarationCase(tIn)
    /\ tOut' = transformVariableDeclaration(tIn)
    /\ tPc' = "out"
    /\ UNCHANGED tIn

VisitPropertyAssignment ==
    /\ tPc = "in"
    /\ isPropertyAssignmentCase(tIn)
    /\ tOut' = transformPropertyAssignment(tIn)
    /\ tPc' = "out"
    /\ UNCHANGED tIn

VisitPropertyDeclaration ==
    /\ tPc = "in"
    /\ isPropertyDeclarationCase(tIn)
    /\ tOut' = transformPropertyDeclaration(tIn)
    /\ tPc' = "out"
    /\ UNCHANGED tIn

\* line 447: any other node is kept and its children are visited
VisitEachChild ==
    /\ tPc = "in"
    /\ ~isVariableDeclarationCase(tIn)
    /\ ~isPropertyAssignmentCase(tIn)
    /\ ~isPropertyDeclarationCase(tIn)
    /\ tOut' = tIn
    /\ tPc' = "out"
    /\ UNCHANGED tIn

NextTransform ==
    \/ VisitVariableDeclaration
    \/ VisitPropertyAssignment
    \/ VisitPropertyDeclaration
    \/ VisitEachChild

\* the argument list a call is made with when ngDevMode has the given value:
\* a spread of (ngDevMode ? whenTrue : whenFalse) contributes the elements of
\* the chosen array
RECURSIVE EvalArgs(_, _)
EvalArgs(args, ngDevMode) ==
    IF args = <<>> THEN <<>>
    ELSE (IF Head(args).kind = "spread"
          THEN (IF ngDevMode THEN Head(args).whenTrue ELSE Head(args).whenFalse)
          ELSE <<Head(args)>>)
         \o EvalArgs(Tail(args), ngDevMode)

\* the value an evaluated object literal has for a key: the last property of
\* that name wins ("none" when absent)
PropertyValue(props, key) ==
    LET ks == {k \in 1..Len(props) : props[k].name = key}
    IN  IF ks = {} THEN "none"
        ELSE IF props[CHOOSE k \in ks : \A j \in ks : j <= k].assign
             THEN props[CHOOSE k \in ks : \A j \in ks : j <= k].value
             ELSE "shorthand"

(***************************************************************************)
(* schematics/migrations/http-xhr-backend/migration.ts: migrateFile        *)
(***************************************************************************)
\* most calls in a source file
MaxCalls == 2
\* longest argument list of a provideHttpClient call
MaxCallArgs == 2

HTTP == "@angular/common/http"

provideHttpClient == "provideHttpClient"

WITH_FETCH == "withFetch"

WITH_XHR == "withXhr"

\* an argument: a call of an identifier (withFetch(), withInterceptorsFromDi(),
\* ...) or an identifier (a feature kept in a variable)
Arg(kind, text) == [kind |-> kind, text |-> text]

FeatureArgs ==
    {Arg("call", WITH_FETCH), Arg("call", "withInterceptorsFromDi"),
     Arg("call", "withXsrfConfiguration"), Arg("identifier", "features")}

FeatureArgLists == UNION {[1..n -> FeatureArgs] : n \in 0..MaxCallArgs}

\* a call expression of the file: callee identifier and arguments
Calls ==
    {[callee |-> provideHttpClient, args |-> a] : a \in FeatureArgLists}
    \cup {[callee |-> "bootstrapApplication", args |-> <<>>]}

\* the file's import from HTTP: whether there is one with named imports, and
\* the names of its elements
NamedImports(present, elements) == [present |-> present, elements |-> elements]

NamedImportChoices ==
    {NamedImports(FALSE, <<>>),
     NamedImports(TRUE, <<WITH_FETCH>>),
     NamedImports(TRUE, <<provideHttpClient>>),
     NamedImports(TRUE, <<provideHttpClient, WITH_FETCH>>),
     NamedImports(TRUE, <<provideHttpClient, "withInterceptorsFromDi", WITH_FETCH>>)}

\* the node a change replaces: the NamedImports node or the n-th call
HttpImportsNode == 0

VARIABLES
    sourceFile,    \* the named imports from HTTP and the calls, in visit order
    visited,       \* number of calls the visitor has been through
    changes,       \* the replaceNode calls made on the ChangeTracker
    written,       \* the changes handed to rewriteFn
    mPc            \* "start", "visit", "done"

mVars == <<sourceFile, visited, changes, written, mPc>>

InitMigrate ==
    /\ sourceFile \in [httpImports : NamedImportChoices,
                       calls : UNION {[1..n -> Calls] : n \in 0..MaxCalls}]
    /\ visited = 0
    /\ changes = <<>>
    /\ written = <<>>
    /\ mPc = "start"

\* utils/typescript/imports.ts getNamedImports: the NamedImports node of the
\* import from the module, or null
getNamedImports(file) == file.httpImports

\* utils/typescript/imports.ts getImportSpecifier: the specifier of the name
\* in the import from the module, or null
getImportSpecifier(file, name) ==
    file.httpImports.present /\ name \in Range(file.httpImports.elements)

\* lines 24-31: nothing to do without the imports
MigrateFileReturns ==
    /\ mPc = "start"
    /\ \/ ~getNamedImports(sourceFile).present
       \/ ~getImportSpecifier(sourceFile, provideHttpClient)
    /\ mPc' = "done"
    /\ UNCHANGED <<sourceFile, visited, changes, written>>

\* line 33: the visit of the file begins
MigrateFileVisits ==
    /\ mPc = "start"
    /\ getNamedImports(sourceFile).present
    /\ getImportSpecifier(sourceFile, provideHttpClient)
    /\ mPc' = "visit"
    /\ UNCHANGED <<sourceFile, visited, changes, written>>

NextCall == sourceFile.calls[visited + 1]

\* lines 40-46
hasWithFetch(call) ==
    \E k \in 1..Len(call.args) :
        call.args[k].kind = "call" /\ call.args[k].text = WITH_FETCH

\* lines 51-58: the call with withXhr() in front of its arguments
CallWithXhrAppended(call) ==
    [callee |-> provideHttpClient,
     args |-> Append(call.args, Arg("call", WITH_XHR))]

CallWithXhr(call) ==
    [callee |-> provideHttpClient,
     args |-> <<Arg("call", WITH_XHR)>> \o call.args]

\* lines 68-79: the call with the arguments the filter keeps
CallWithoutFetch(call) ==
    [callee |-> provideHttpClient,
     args |-> SelectSeq(call.args,
                 LAMBDA a : a.kind = "call" /\ a.text # WITH_FETCH)]

ReplaceNode(target, node) == [target |-> target, node |-> node]

\* lines 36-38: not a call of the identifier provideHttpClient
VisitOtherCall ==
    /\ mPc = "visit"
    /\ visited < Len(sourceFile.calls)
    /\ NextCall.callee # provideHttpClient
    /\ visited' = visited + 1
    /\ UNCHANGED <<sourceFile, changes, written, mPc>>

\* lines 50-66
VisitCallWithoutFetch ==
    /\ mPc = "visit"
    /\ visited < Len(sourceFile.calls)
    /\ NextCall.callee = provideHttpClient
    /\ ~hasWithFetch(NextCall)
    /\ changes' = changes \o
         <<ReplaceNode(visited + 1, CallWithXhr(NextCall)),
           ReplaceNode(HttpImportsNode,
               Append(getNamedImports(sourceFile).elements, WITH_XHR))>>
    /\ visited' = visited + 1
    /\ UNCHANGED <<sourceFile, written, mPc>>

\* lines 67-87
VisitCallWithFetch ==
    /\ mPc = "visit"
    /\ visited < Len(sourceFile.calls)
    /\ NextCall.callee = provideHttpClient
    /\ hasWithFetch(NextCall)
    /\ changes' = changes \o
         <<ReplaceNode(visited + 1, CallWithoutFetch(NextCall)),
           ReplaceNode(HttpImportsNode,
               SelectSeq(getNamedImports(sourceFile).elements,
                         LAMBDA e : e # WITH_FETCH))>>
    /\ visited' = visited + 1
    /\ UNCHANGED <<sourceFile, written, mPc>>

\* utils/change_tracker.ts recordChanges: the recorded changes of the file
recordChanges(recorded) == recorded

\* lines 90-95: every recorded change is handed to rewriteFn
WriteChanges ==
    /\ mPc = "visit"
    /\ visited = Len(sourceFile.calls)
    /\ written' = recordChanges(changes)
    /\ mPc' = "done"
    /\ UNCHANGED <<sourceFile, visited, changes>>

NextMigrate ==
    \/ MigrateFileReturns
    \/ MigrateFileVisits
    \/ VisitOtherCall
    \/ VisitCallWithoutFetch
    \/ VisitCallWithFetch
    \/ WriteChanges

(***************************************************************************)
(* schematics/migrations/http-xhr-backend/migration.ts: the self-closing   *)
(* tag migration (migrate, selfClosingTagMigration)                        *)
(***************************************************************************)
\* longest options.path, in characters
MaxPathLen == 3
\* number of source files of the migration program
NumFiles == 2

\* the characters a path is written with
PathChars == {".", "/", "a"}

OptionPaths == UNION {[1..n -> PathChars] : n \in 0..MaxPathLen}

\* process.cwd(), line 122: the project directory "/w"
basePath == <<"/", "w">>

\* String.prototype.startsWith
startsWith(s, prefix) ==
    /\ Len(s) >= Len(prefix)
    /\ SubSeq(s, 1, Len(prefix)) = prefix

\* the segments of a path between its separators
RECURSIVE Split(_, _)
Split(s, cur) ==
    IF s = <<>> THEN <<cur>>
    ELSE IF Head(s) = "/" THEN <<cur>> \o Split(Tail(s), <<>>)
    ELSE Split(Tail(s), Append(cur, Head(s)))

\* path.join resolves the "." and ".." segments of an absolute path
RECURSIVE Resolve(_, _)
Resolve(segs, acc) ==
    IF segs = <<>> THEN acc
    ELSE IF Len(Head(segs)) = 0 THEN Resolve(Tail(segs), acc)
    ELSE IF Head(segs) = <<".">> THEN Resolve(Tail(segs), acc)
    ELSE IF Head(segs) = <<".", ".">>
         THEN Resolve(Tail(segs),
                      IF Len(acc) = 0 THEN acc ELSE SubSeq(acc, 1, Len(acc) - 1))
    ELSE Resolve(Tail(segs), Append(acc, Head(segs)))

RECURSIVE Unsplit(_)
Unsplit(segs) ==
    IF segs = <<>> THEN <<>> ELSE <<"/">> \o Head(segs) \o Unsplit(Tail(segs))

\* line 123: normalizePath(join(basePath, path)); join keeps a trailing
\* separator, normalizePath only turns backslashes into slashes
join(base, path) ==
    LET str == base \o <<"/">> \o path
        segs == Resolve(Split(str, <<>>), <<>>)
    IN  IF Len(segs) = 0 THEN <<"/">>
        ELSE Unsplit(segs) \o (IF str[Len(str)] = "/" THEN <<"/">> ELSE <<>>)

\* what fs knows of a path
PathStats == {"missing", "file", "directory"}

\* the source files of the program: the name, what canMigrateFile says of
\* the file, the template property its @Component decorator has and whether
\* migrateTemplateToSelfClosingTags finds something to change in the template
SourceFileOf(fileName, canMigrate, type, changed) ==
    [fileName |-> fileName, canMigrate |-> canMigrate, type |-> type,
     changed |-> changed]

FileNames == {<<"/", "w", "/", "c">>, <<"/", "w", "/", "a", "/", "c">>}

SourceFileChoices ==
    {SourceFileOf(n, k[1], k[2], k[3]) :
        n \in FileNames,
        k \in {<<FALSE, "template", TRUE>>, <<TRUE, "none", FALSE>>,
               <<TRUE, "template", FALSE>>, <<TRUE, "template", TRUE>>,
               <<TRUE, "templateUrl", TRUE>>}}

VARIABLES
    optionsPath,     \* options.path
    pathStat,        \* what existsSync / statSync answer for pathToMigrate
    sourceFiles,     \* program.getSourceFiles()
    tree,            \* the text of each file in the Tree
    analyzedFiles,   \* the keys of the analyzedFiles Map, in insertion order
    updated,         \* number of analyzed paths the update loop has done
    sctPc,           \* "start", "called", "update", "done", "threw"
    sctError         \* the message of the SchematicsException thrown

sVars == <<optionsPath, pathStat, sourceFiles, tree, analyzedFiles, updated,
           sctPc, sctError>>

pathToMigrate == join(basePath, optionsPath)

\* lines 124-128
allPaths == IF Len(pathToMigrate) # 0 THEN <<pathToMigrate>> ELSE <<>>

NoError == [message |-> "", path |-> <<>>]

SchematicsException(message, path) == [message |-> message, path |-> path]

InitSelfClosing ==
    /\ optionsPath \in OptionPaths
    /\ pathStat \in PathStats
    \* the working directory and the root are directories
    /\ pathToMigrate \in {<<"/">>, basePath, basePath \o <<"/">>}
         => pathStat = "directory"
    /\ sourceFiles \in [1..NumFiles -> SourceFileChoices]
    /\ tree = [i \in 1..NumFiles |-> "original"]
    /\ analyzedFiles = <<>>
    /\ updated = 0
    /\ sctPc = "start"
    /\ sctError = NoError

\* migrate, lines 121-137: selfClosingTagMigration is called for the path,
\* or there is no path
migrate ==
    /\ sctPc = "start"
    /\ IF Len(allPaths) = 0
       THEN /\ sctPc' = "threw"
            /\ sctError' = SchematicsException(
                 "Could not find any tsconfig file. Cannot run the self closing tag migration.",
                 <<>>)
       ELSE /\ sctPc' = "called"
            /\ UNCHANGED sctError
    /\ UNCHANGED <<optionsPath, pathStat, sourceFiles, tree, analyzedFiles, updated>>

\* line 155
IsOutsideProjectSlash(path) == startsWith(path, <<".", ".", "/">>)

IsOutsideProject(path) == startsWith(path, <<".", ".">>)

\* line 161
IsDirectoryNotFile(stat) == stat # "missing" /\ stat = "directory"

IsNotDirectory(stat) == stat # "missing" /\ stat # "directory"

\* lines 155-159
ThrowOutsideProject ==
    /\ sctPc = "called"
    /\ IsOutsideProject(optionsPath)
    /\ sctPc' = "threw"
    /\ sctError' = SchematicsException(
         "Cannot run self closing tag migration outside of the current project.",
         <<>>)
    /\ UNCHANGED <<optionsPath, pathStat, sourceFiles, tree, analyzedFiles, updated>>

\* lines 161-165
ThrowNotDirectory ==
    /\ sctPc = "called"
    /\ ~IsOutsideProject(optionsPath)
    /\ IsNotDirectory(pathStat)
    /\ sctPc' = "threw"
    /\ sctError' = SchematicsException(
         "Migration path ${pathToMigrate} has to be a directory. Cannot run the self closing tag migration.",
         pathToMigrate)
    /\ UNCHANGED <<optionsPath, pathStat, sourceFiles, tree, analyzedFiles, updated>>

\* lines 170-176 and analyzeDecorator: the files under the path that can be
\* migrated and declare a template or templateUrl
Analyzed(i) ==
    /\ startsWith(sourceFiles[i].fileName, pathToMigrate)
    /\ sourceFiles[i].canMigrate
    /\ sourceFiles[i].type \in {"template", "templateUrl"}

\* lines 167-186
AnalyzeSourceFiles ==
    /\ sctPc = "called"
    /\ ~IsOutsideProject(optionsPath)
    /\ ~IsNotDirectory(pathStat)
    /\ analyzedFiles' = SelectSeq([i \in 1..NumFiles |-> i], Analyzed)
    /\ sctPc' = "update"
    /\ UNCHANGED <<optionsPath, pathStat, sourceFiles, tree, updated, sctError>>

\* lines 188-213: one analyzed path is read, migrated and committed
UpdateFile ==
    /\ sctPc = "update"
    /\ updated < Len(analyzedFiles)
    /\ LET i == analyzedFiles[updated + 1]
       IN  tree' = [tree EXCEPT ![i] =
                       IF sourceFiles[i].changed THEN "migrated" ELSE @]
    /\ updated' = updated + 1
    /\ UNCHANGED <<optionsPath, pathStat, sourceFiles, analyzedFiles, sctPc, sctError>>

\* lines 140-144: every path is done and migrate logs the end
MigrationFinished ==
    /\ sctPc = "update"
    /\ updated = Len(analyzedFiles)
    /\ sctPc' = "done"
    /\ UNCHANGED <<optionsPath, pathStat, sourceFiles, tree, analyzedFiles,
                   updated, sctError>>

NextSelfClosing ==
    \/ migrate
    \/ ThrowOutsideProject
    \/ ThrowNotDirectory
    \/ AnalyzeSourceFiles
    \/ UpdateFile
    \/ MigrationFinished

(***************************************************************************)
(* annotations/directive/src/input_output_parse_options.ts                 *)
(***************************************************************************)
\* longest array literal in a branch of the conditional
MaxElements == 2

\* a property of an object literal: its name and its initializer, a string
\* literal with a text or another expression
OptionProperty(name, isString, text) ==
    [name |-> name, isString |-> isString, text |-> text]

OptionPropertyLists ==
    LET debugName == OptionProperty("debugName", TRUE, "testInput")
        aliasA == OptionProperty("alias", TRUE, "a")
        aliasB == OptionProperty("alias", TRUE, "b")
        aliasExpr == OptionProperty("alias", FALSE, "")
    IN  {<<>>, <<debugName>>, <<aliasA>>, <<debugName, aliasA>>,
         <<debugName, aliasB>>, <<debugName, aliasExpr>>, <<aliasExpr>>}

\* an element of an array literal: an object literal or another expression
Element(isObject, properties) == [isObject |-> isObject, properties |-> properties]

Elements ==
    {Element(TRUE, ps) : ps \in OptionPropertyLists} \cup {Element(FALSE, <<>>)}

\* a branch of the conditional: an array literal or another expression
Branch(isArray, elements) == [isArray |-> isArray, elements |-> elements]

ArrayLiterals ==
    {Branch(TRUE, es) : es \in UNION {[1..n -> Elements] : n \in 0..MaxElements}}

\* the operand of a spread element
SpreadOperand(parenthesized, conditional, condition, whenTrue, whenFalse) ==
    [parenthesized |-> parenthesized, conditional |-> conditional,
     condition |-> condition, whenTrue |-> whenTrue, whenFalse |-> whenFalse]

NoOperand == SpreadOperand(FALSE, FALSE, "", Branch(FALSE, <<>>), Branch(FALSE, <<>>))

SpreadOperands ==
    {SpreadOperand(TRUE, TRUE, "ngDevMode", t, f) : t \in ArrayLiterals, f \in ArrayLiterals}
    \cup {SpreadOperand(p[1], p[2], p[3], p[4], p[5]) : p \in
            LET one == Branch(TRUE, <<Element(TRUE, <<OptionProperty("debugName", TRUE, "testInput")>>)>>)
                none == Branch(TRUE, <<>>)
            IN  {<<FALSE, TRUE, "ngDevMode", one, none>>,
                 <<TRUE, FALSE, "", Branch(FALSE, <<>>), Branch(FALSE, <<>>)>>,
                 <<TRUE, TRUE, "isDevMode", one, none>>,
                 <<TRUE, TRUE, "ngDevMode()", one, none>>,
                 <<TRUE, TRUE, "ngDevMode", Branch(FALSE, <<>>), none>>,
                 <<TRUE, TRUE, "ngDevMode", one, Branch(FALSE, <<>>)>>}}

\* the options node: a spread element, an object literal or another
\* expression
OptionsNodeOf(kind, properties, expression) ==
    [kind |-> kind, properties |-> properties, expression |-> expression]

OptionsNodes ==
    {OptionsNodeOf("spread", <<>>, e) : e \in SpreadOperands}
    \cup {OptionsNodeOf("object", ps, NoOperand) : ps \in OptionPropertyLists}
    \cup {OptionsNodeOf("identifier", <<>>, NoOperand)}

VARIABLES
    optionsNode,   \* the argument of parseAndValidateInputAndOutputOptions
    parsed,        \* what the call returned or threw
    pPc            \* "in": not called yet, "out": the call is over

pVars == <<optionsNode, parsed, pPc>>

\* {alias: string | undefined}
Alias(text) == [defined |-> TRUE, text |-> text]

NoAlias == [defined |-> FALSE, text |-> ""]

\* the Map of reflectObjectLiteral: has(name) and get(name)
OptionsHas(properties, name) ==
    \E k \in 1..Len(properties) : properties[k].name = name

OptionsGet(properties, name) ==
    properties[CHOOSE k \in 1..Len(properties) :
                  /\ properties[k].name = name
                  /\ \A j \in (k + 1)..Len(properties) : properties[j].name # name]

\* what a call does: it returns nothing, returns the options or throws
Void == [result |-> "void", alias |-> NoAlias, message |-> ""]

Returns(alias) == [result |-> "returns", alias |-> alias, message |-> ""]

FatalDiagnosticError(message) ==
    [result |-> "throws", alias |-> NoAlias, message |-> message]

\* line 54
ElementCountsFit(trueCaseElements, falseCaseElements) ==
    Len(trueCaseElements) - 1 = Len(falseCaseElements)

\* checkInputForForDebugNameCase, lines 58-100
CheckElements(trueCaseElements, falseCaseElements) ==
    LET trueCaseElement == trueCaseElements[1]
        trueCaseOptions == trueCaseElement.properties
    IN  IF Len(trueCaseElements) = 0 THEN Void
        ELSE IF ~trueCaseElement.isObject THEN Void
        ELSE IF Len(falseCaseElements) = 0
        THEN IF ~OptionsHas(trueCaseOptions, "alias") THEN Returns(NoAlias)
             ELSE IF OptionsGet(trueCaseOptions, "alias").isString
             THEN Returns(Alias(OptionsGet(trueCaseOptions, "alias").text))
             ELSE Void
        ELSE IF falseCaseElements[1].isObject
        THEN LET falseCaseOptions == falseCaseElements[1].properties
             IN  IF ~OptionsHas(trueCaseOptions, "alias")
                    \/ ~OptionsHas(falseCaseOptions, "alias") THEN Void
                 ELSE IF ~OptionsGet(trueCaseOptions, "alias").isString
                         \/ ~OptionsGet(falseCaseOptions, "alias").isString
                 THEN Void
                 ELSE IF OptionsGet(trueCaseOptions, "alias").text
                         # OptionsGet(falseCaseOptions, "alias").text
                 THEN FatalDiagnosticError(
                        "Argument needs to be an object literal that is statically analyzable")
                 ELSE Returns(Alias(OptionsGet(trueCaseOptions, "alias").text))
        ELSE Void

\* checkInputForForDebugNameCase, lines 14-101
checkInputForForDebugNameCase(node) ==
    IF node.kind # "spread" THEN Void
    ELSE IF ~node.expression.parenthesized THEN Void
    ELSE IF ~node.expression.conditional THEN Void
    ELSE IF node.expression.condition # "ngDevMode" THEN Void
    ELSE IF ~node.expression.whenTrue.isArray \/ ~node.expression.whenFalse.isArray
    THEN Void
    ELSE IF ~ElementCountsFit(node.expression.whenTrue.elements,
                              node.expression.whenFalse.elements)
    THEN Void
    ELSE CheckElements(node.expression.whenTrue.elements,
                       node.expression.whenFalse.elements)

\* parseAndValidateInputAndOutputOptions, lines 111-145
parseAndValidateInputAndOutputOptions(node) ==
    LET inputOptionsFromDebugNameCase == checkInputForForDebugNameCase(node)
    IN  IF inputOptionsFromDebugNameCase.result # "void"
        THEN inputOptionsFromDebugNameCase
        ELSE IF node.kind # "object"
        THEN FatalDiagnosticError(
               "Argument needs to be an object literal that is statically analyzable.")
        ELSE IF ~OptionsHas(node.properties, "alias") THEN Returns(NoAlias)
        ELSE IF ~OptionsGet(node.properties, "alias").isString
        THEN FatalDiagnosticError(
               "Alias needs to be a string that is statically analyzable.")
        ELSE Returns(Alias(OptionsGet(node.properties, "alias").text))

InitParse ==
    /\ optionsNode \in OptionsNodes
    /\ parsed = Void
    /\ pPc = "in"

\* the call of parseAndValidateInputAndOutputOptions
ParseOptions ==
    /\ pPc = "in"
    /\ parsed' = parseAndValidateInputAndOutputOptions(optionsNode)
    /\ pPc' = "out"
    /\ UNCHANGED optionsNode

NextParse == ParseOptions

(***************************************************************************)
(* Specifications                                                          *)
(***************************************************************************)
vars == <<arVars, gVars, tVars, mVars, sVars, pVars>>

GraphFixed ==
    /\ producerNode = [n \in Nodes |-> <<>>]
    /\ nodeValue = [n \in Nodes |-> 0]
    /\ signalNodes = <<>>
    /\ GraphIdle

TransformFixed ==
    /\ tIn = 0
    /\ tOut = 0
    /\ tPc = "none"

MigrateFixed ==
    /\ sourceFile = 0
    /\ visited = 0
    /\ changes = <<>>
    /\ written = <<>>
    /\ mPc = "none"

SelfClosingFixed ==
    /\ optionsPath = <<>>
    /\ pathStat = "directory"
    /\ sourceFiles = <<>>
    /\ tree = <<>>
    /\ analyzedFiles = <<>>
    /\ updated = 0
    /\ sctPc = "none"
    /\ sctError = NoError

ParseFixed ==
    /\ optionsNode = OptionsNodeOf("identifier", <<>>, NoOperand)
    /\ parsed = Void
    /\ pPc = "none"

OthersFixedButParse == TransformFixed /\ MigrateFixed /\ SelfClosingFixed

OthersFixed == TransformFixed /\ MigrateFixed /\ SelfClosingFixed /\ ParseFixed

\* the after-render manager
Init == InitAfterRender /\ GraphFixed /\ OthersFixed

Next == NextAfterRender /\ UNCHANGED <<gVars, tVars, mVars, sVars, pVars>>

Spec == Init /\ [][Next]_vars

\* the after-render manager with the scheduler's notifications and the
\* histories recorded
InitRecorded ==
    AfterRenderStart /\ recording = TRUE /\ GraphFixed /\ OthersFixed

OthersUnchanged == UNCHANGED <<gVars, tVars, mVars, sVars, pVars>>

NextRecorded == (NextAfterRender \/ ScheduledExecute) /\ OthersUnchanged

SpecRecorded == InitRecorded /\ [][NextRecorded]_vars

\* the scheduler answers notify() with a tick that calls execute()
Scheduled == ScheduledExecute /\ OthersUnchanged

\* a view marked for traversal is passed to registerAfterRendersInView
Traversed == registerAfterRendersInView /\ OthersUnchanged

\* execute() and the hooks it calls go on until they return or throw
Runs ==
    (RunNextHook \/ HookReturn \/ HookThrow \/ HandleErrorThrows \/ ExecuteFinish)
    /\ OthersUnchanged

SpecServed ==
    SpecRecorded /\ SF_vars(Scheduled) /\ SF_vars(Traversed) /\ WF_vars(Runs)

\* getSignalGraph on every bounded reactive graph
InitSignalGraph ==
    InitGraph /\ InitAfterRender /\ OthersFixed

NextSignalGraph == NextGraph /\ UNCHANGED <<arVars, tVars, mVars, sVars, pVars>>

SpecSignalGraph == InitSignalGraph /\ [][NextSignalGraph]_vars

\* getSignalGraph is a synchronous call: it keeps running until it is over
SpecSignalGraphLive == SpecSignalGraph /\ WF_vars(NextSignalGraph)

\* signalMetadataTransform on every bounded declaration
InitSignalTransform ==
    InitTransform /\ InitAfterRender /\ GraphFixed /\ MigrateFixed
    /\ SelfClosingFixed /\ ParseFixed

NextSignalTransform == NextTransform /\ UNCHANGED <<arVars, gVars, mVars, sVars, pVars>>

SpecSignalTransform == InitSignalTransform /\ [][NextSignalTransform]_vars

\* migrateFile on every bounded source file
InitMigrateFile ==
    InitMigrate /\ InitAfterRender /\ GraphFixed /\ TransformFixed
    /\ SelfClosingFixed /\ ParseFixed

NextMigrateFile == NextMigrate /\ UNCHANGED <<arVars, gVars, tVars, sVars, pVars>>

SpecMigrateFile == InitMigrateFile /\ [][NextMigrateFile]_vars

\* the self-closing-tag migration on every bounded path and program
InitSelfClosingTag ==
    InitSelfClosing /\ InitAfterRender /\ GraphFixed /\ TransformFixed
    /\ MigrateFixed /\ ParseFixed

NextSelfClosingTag == NextSelfClosing /\ UNCHANGED <<arVars, gVars, tVars, mVars, pVars>>

SpecSelfClosingTag == InitSelfClosingTag /\ [][NextSelfClosingTag]_vars

\* parseAndValidateInputAndOutputOptions on every bounded options node
InitParseOptions == InitParse /\ InitAfterRender /\ GraphFixed /\ OthersFixedButParse

NextParseOptions == NextParse /\ UNCHANGED <<arVars, gVars, tVars, mVars, sVars>>

SpecParseOptions == InitParseOptions /\ [][NextParseOptions]_vars

(***************************************************************************)
(* Properties of the after-render manager                                  *)
(***************************************************************************)
\* the step is execute() calling a hook
HookStarts ==
    /\ Len(stack) > 0
    /\ Len(stack') = Len(stack)
    /\ Top.cur = 0
    /\ stack'[Len(stack')].cur # 0

\* the step is execute() returning normally
ExecuteReturns ==
    /\ Len(stack) > 0
    /\ Len(stack') = Len(stack) - 1
    /\ Top.cur = 0

\* C1: within one execute() call the hooks run phase by phase: the hook that
\* is running belongs to a phase that is not earlier than the phase of any
\* hook the same call has run before.
C1_PhaseOrder ==
    \A k \in 1..Len(stack) :
        stack[k].cur # 0 => stack[k].phase >= stack[k].maxRan

\* a hook of the first sequence runs in MixedReadWrite after a hook of the
\* second sequence ran in Write and returned a value, in the same call
C1_Witness ==
    /\ Len(stack) = 1
    /\ stack[1].cur = 1
    /\ stack[1].phase = 3
    /\ 2 \in Range(sequences)
    /\ pipelinedValue[2] # undefined

\* C2: a sequence registered while an execute() call is running hooks is not
\* in the active set while that call runs, none of its hooks is run by that
\* call, and it is in the active set when that call returns unless it was
\* destroyed in the meantime.
C2_DeferredRegistration ==
    /\ \A k \in 1..Len(stack) :
        /\ stack[k].reg \cap Range(sequences) = {}
        /\ stack[k].cur \notin stack[k].reg
    /\ \A s \in lastRet.reg : ~destroyed[s] => s \in Range(sequences)

\* C3: once an active sequence has been unregistered during an execute()
\* call, no hook of it is started before that call ends, and it is not in
\* the active set when that call returns.
C3_Step ==
    /\ HookStarts =>
        \A k \in 1..Len(stack) : stack'[Len(stack')].cur \notin stack[k].unreg
    /\ ExecuteReturns => Top.unreg \cap Range(sequences') = {}

C3_UnregisterDuringExecute == [][C3_Step]_vars

\* execute() has just returned after a repeating sequence of the active set
\* was unregistered during it while another sequence is still active
C3_Witness ==
    /\ lastRet.unreg # {}
    /\ sequences # <<>>

\* a hook runs after another sequence was unregistered in the same call
C3_WitnessRunning ==
    \E k \in 1..Len(stack) :
        /\ stack[k].unreg # {}
        /\ stack[k].cur # 0
        /\ stack[k].cur \notin stack[k].unreg
        /\ stack[k].phase > 1

(***************************************************************************)
(* Properties of the values, one-shot sequences and flags of the manager   *)
(***************************************************************************)
\* the step ends an execute() call, by return or by exception
ExecuteEnds == Len(stack) > 0 /\ Len(stack') = Len(stack) - 1

\* C14: the value execute() passes to a hook is undefined when the call has
\* had no value from the sequence yet, and otherwise the value the latest
\* hook of that sequence returned to the same call.
C14_Step ==
    HookStarts =>
        LET s == stack'[Len(stack')].cur
        IN  pipelinedValue[s] =
              IF Top.last[s] = -1 THEN undefined ELSE Top.last[s]

C14_ValuePipelining == [][C14_Step]_vars

\* C15: no hook of a sequence that was one-shot and active when an execute()
\* call started is started a second time, and when that call ends the
\* sequence is out of the active set and destroyed.
C15_Step ==
    /\ HookStarts =>
         \A k \in 1..Len(stack) :
            stack'[Len(stack')].cur \in stack[k].oneShots =>
                stack'[Len(stack')].phase \notin ran[stack'[Len(stack')].cur]
    /\ ExecuteEnds =>
         \A s \in Top.oneShots : s \notin Range(sequences') /\ destroyed'[s]

C15_OneShotRunsOnce == [][C15_Step]_vars

\* C16: whenever no execute() call is in progress, every active sequence has
\* erroredOrDestroyed = false and pipelinedValue = undefined.
C16_CleanBetweenExecutions ==
    Len(stack) = 0 =>
        \A s \in Range(sequences) :
            ~erroredOrDestroyed[s] /\ pipelinedValue[s] = undefined

\* C17: executing is true whenever a hook is running and false whenever no
\* execute() call is in progress.
C17_ExecutingFlag ==
    /\ (\E k \in 1..Len(stack) : stack[k].cur # 0) => executing
    /\ Len(stack) = 0 => ~executing

Registered(s) ==
    s \in Range(sequences) \cup Range(deferredRegistrations) \cup Range(viewQueue)

\* C18: a sequence that is registered, in the view's queue or in the manager,
\* is eventually destroyed or has a hook run by some execute().
C18_RegistrationServed ==
    \A s \in SeqIds : [](Registered(s) => <>(destroyed[s] \/ ran[s] # {}))

(***************************************************************************)
(* Properties of the signal graph walk                                     *)
(***************************************************************************)
GraphCallOver == gPc \in {"returned", "threw"}

\* C4: the walk of every producer graph, cyclic or shared, comes to an end,
\* and no reactive node is expanded more than once.
C4_WalkTerminates ==
    /\ [](\A n \in Nodes : expanded[n] <= 1)
    /\ <>GraphCallOver

\* the walk is over on a graph in which two computed nodes read each other
\* and one of them is read by both roots
C4_Witness ==
    /\ gPc = "returned"
    /\ 4 \in Range(producerNode[3])
    /\ 3 \in Range(producerNode[4])
    /\ 3 \in Range(producerNode[1])
    /\ 3 \in Range(producerNode[2])
    /\ Len(signalDependenciesMap) = 4

\* C5: once getSignalGraph is over, by return or by exception, every node's
\* producer list and value is what it was when the call began.
C5_PureRead ==
    gPc # "idle" => <<producerNode, nodeValue>> = before

\* a graph with edges has been returned
C5_Witness ==
    /\ gPc = "returned"
    /\ Len(graph.edges) >= 3
    /\ Len(graph.nodes) >= 3

\* the call has thrown
C5_WitnessThrew == gPc = "threw" /\ \E n \in Nodes : producerNode[n] # <<>>

(***************************************************************************)
(* Properties of signalMetadataTransform                                   *)
(***************************************************************************)
Visited == tPc = "out"

Rewritten == Visited /\ tOut # tIn

\* the called identifier resolves to a named import from '@angular/core'
NamedImportFromCore(res) ==
    res.hasSymbol /\ res.declarations > 0 /\ res.kind = "ImportSpecifier"
    /\ res.module = "@angular/core"

\* C6: a call of a signal function whose identifier does not resolve to a
\* named import from '@angular/core' is returned unchanged, in each of the
\* three shapes.
C6_NotFromCoreUnchanged ==
    (Visited /\ isSignalFunction(tIn.base) /\ ~NamedImportFromCore(tIn.resolution))
        => tOut = tIn

\* a property assignment of input(...) imported by name from another module
\* has been visited
C6_Witness ==
    /\ Visited
    /\ tIn.shape = "PropertyAssignment"
    /\ tIn.base = "input"
    /\ tIn.resolution.kind = "ImportSpecifier"
    /\ tIn.resolution.module = "other"
    /\ Len(tIn.args) = 1

\* C7: for every rewritten call, the arguments evaluated with ngDevMode false
\* are exactly the original arguments.
C7_ProdModeKeepsArguments ==
    Rewritten => EvalArgs(tOut.args, FALSE) = tIn.args

\* C8: for every rewritten call, the arguments evaluated with ngDevMode true
\* have, at the config position of the function, an object whose debugName is
\* the declared name and that keeps every original config property, after
\* the original earlier arguments.
C8_DevModeAddsDebugName ==
    Rewritten =>
        LET pos == getConfigArgPosition(tIn) + 1
            dev == EvalArgs(tOut.args, TRUE)
        IN  /\ Len(dev) >= pos
            /\ dev[pos].kind = "object"
            /\ PropertyValue(dev[pos].props, "debugName") = tIn.name
            /\ Len(tIn.args) >= pos =>
                 \A k \in 1..Len(tIn.args[pos].props) :
                    \E j \in 1..Len(dev[pos].props) :
                        dev[pos].props[j] = tIn.args[pos].props[k]
            /\ \A i \in 1..(pos - 1) : i <= Len(tIn.args) /\ dev[i] = tIn.args[i]

(***************************************************************************)
(* Properties of the http-xhr-backend migration                            *)
(***************************************************************************)
ImportsProvideHttpClient ==
    sourceFile.httpImports.present
    /\ provideHttpClient \in Range(sourceFile.httpImports.elements)

\* the argument is withFetch()
IsWithFetchCall(a) == a = Arg("call", WITH_FETCH)

HasWithFetchArgument(call) ==
    \E k \in 1..Len(call.args) : IsWithFetchCall(call.args[k])

Written(change) ==
    \E k \in 1..Len(written) :
        written[k].target = change.target /\ written[k].node = change.node

\* C9: when the migration of a file that imports provideHttpClient from HTTP
\* is over, every provideHttpClient call without a withFetch() argument has
\* been replaced by provideHttpClient(withXhr(), original arguments in order)
\* and the named imports by the original ones plus withXhr.
C9_AddsWithXhr ==
    (mPc = "done" /\ ImportsProvideHttpClient) =>
        \A i \in 1..Len(sourceFile.calls) :
            LET call == sourceFile.calls[i]
            IN  (call.callee = provideHttpClient /\ ~HasWithFetchArgument(call)) =>
                /\ Written(ReplaceNode(i,
                       [callee |-> provideHttpClient,
                        args |-> <<Arg("call", WITH_XHR)>> \o call.args]))
                /\ Written(ReplaceNode(HttpImportsNode,
                       sourceFile.httpImports.elements \o <<WITH_XHR>>))

\* the migration is over on a file whose second call is
\* provideHttpClient(withInterceptorsFromDi(), features)
C9_Witness ==
    /\ mPc = "done"
    /\ ImportsProvideHttpClient
    /\ Len(sourceFile.calls) = 2
    /\ sourceFile.calls[2].callee = provideHttpClient
    /\ sourceFile.calls[2].args =
         <<Arg("call", "withInterceptorsFromDi"), Arg("identifier", "features")>>
    /\ Len(written) >= 2

\* C10: when the migration is over, every provideHttpClient call with a
\* withFetch() argument has been replaced by the call without its withFetch()
\* arguments and with every other argument in the original order, and the
\* named imports by the original ones without withFetch.
C10_RemovesWithFetch ==
    (mPc = "done" /\ ImportsProvideHttpClient) =>
        \A i \in 1..Len(sourceFile.calls) :
            LET call == sourceFile.calls[i]
            IN  (call.callee = provideHttpClient /\ HasWithFetchArgument(call)) =>
                /\ Written(ReplaceNode(i,
                       [callee |-> provideHttpClient,
                        args |-> SelectSeq(call.args, LAMBDA a : ~IsWithFetchCall(a))]))
                /\ Written(ReplaceNode(HttpImportsNode,
                       SelectSeq(sourceFile.httpImports.elements,
                                 LAMBDA e : e # WITH_FETCH)))

(***************************************************************************)
(* Properties of the self-closing-tag migration                            *)
(***************************************************************************)
MigrationOver == sctPc \in {"done", "threw"}

NoFileChanged == \A i \in 1..NumFiles : tree[i] = "original"

\* C11: a run with a path whose first two characters are ".." never changes
\* a file of the tree, and when it is over it has failed with 'Cannot run
\* self closing tag migration outside of the current project.'
C11_OutsideProjectFails ==
    (Len(optionsPath) >= 2 /\ optionsPath[1] = "." /\ optionsPath[2] = ".") =>
        /\ NoFileChanged
        /\ sctPc \notin {"update", "done"}
        /\ sctPc = "threw" =>
             sctError.message =
               "Cannot run self closing tag migration outside of the current project."

\* the run on "../" has failed while the program has a file the migration
\* of the project would change
C11_Witness ==
    /\ optionsPath = <<".", ".", "/">>
    /\ sctPc = "threw"
    /\ \E i \in 1..NumFiles :
         sourceFiles[i].canMigrate /\ sourceFiles[i].changed

FailedNotDirectory ==
    /\ sctPc = "threw"
    /\ sctError.message =
         "Migration path ${pathToMigrate} has to be a directory. Cannot run the self closing tag migration."
    /\ sctError.path = join(basePath, optionsPath)

\* C12 as stated: a run with a path that exists and is not a directory
\* analyzes and updates no file, and when it is over it has failed with
\* 'Migration path <path> has to be a directory. ...'
C12_NotDirectoryFails ==
    pathStat = "file" =>
        /\ NoFileChanged
        /\ analyzedFiles = <<>>
        /\ sctPc \notin {"update", "done"}
        /\ sctPc = "threw" => FailedNotDirectory

\* C12 amended: the same for a path that does not start with ".."
C12_NotDirectoryFailsInsideProject ==
    (pathStat = "file" /\ ~(Len(optionsPath) >= 2 /\ optionsPath[1] = "."
                              /\ optionsPath[2] = ".")) =>
        /\ NoFileChanged
        /\ analyzedFiles = <<>>
        /\ sctPc \notin {"update", "done"}
        /\ sctPc = "threw" => FailedNotDirectory

\* the run on the file "./a" has failed while the program has a file under
\* that path that the migration would change
C12_Witness ==
    /\ optionsPath = <<".", "/", "a">>
    /\ pathStat = "file"
    /\ sctPc = "threw"
    /\ \E i \in 1..NumFiles :
         /\ sourceFiles[i].canMigrate
         /\ sourceFiles[i].changed
         /\ startsWith(sourceFiles[i].fileName, join(basePath, optionsPath))

(***************************************************************************)
(* Properties of parseAndValidateInputAndOutputOptions                     *)
(***************************************************************************)
\* ...(ngDevMode ? [whenTrue] : whenFalse)
DebugNameOptions(whenTrue, whenFalse) ==
    OptionsNodeOf("spread", <<>>,
        SpreadOperand(TRUE, TRUE, "ngDevMode",
            Branch(TRUE, <<Element(TRUE, whenTrue)>>), Branch(TRUE, whenFalse)))

\* C13: for ...(ngDevMode ? [{debugName: d, alias: 'a'}] : [{alias: 'a'}])
\* the call returns {alias: 'a'}, and for ...(ngDevMode ? [{debugName: d}] : [])
\* it returns {alias: undefined}; it throws for neither.
C13_DebugNameOptionsParsed ==
    LET debugName == OptionProperty("debugName", TRUE, "testInput")
        alias == OptionProperty("alias", TRUE, "a")
    IN  /\ (pPc = "out" /\ optionsNode =
               DebugNameOptions(<<debugName, alias>>, <<Element(TRUE, <<alias>>)>>))
            => parsed = Returns(Alias("a"))
        /\ (pPc = "out" /\ optionsNode = DebugNameOptions(<<debugName>>, <<>>))
            => parsed = Returns(NoAlias)

====
